---- MODULE Spec2Model ----
(***************************************************************************)
(* A model of "influx_inspect deletetsm"                                   *)
(* (src/cmd/influx_inspect/deletetsm/deletetsm.go): Command.Run walks the  *)
(* data directory, loads the series file and rewrites every located TSM    *)
(* file without the blocks of the listed series.                           *)
(*                                                                         *)
(* Strings are sequences of character codes, so that path ordering,        *)
(* splitting and key formatting are computed as the code computes them.    *)
(*                                                                         *)
(* Spec is the command as it runs, one file at a time, and run again.      *)
(* SpecConcurrent is two calls of processTSMFile whose steps interleave;   *)
(* a file is known by its path, and each call keeps track of where the     *)
(* file behind its output descriptor is linked, since another call can     *)
(* remove or rename that file while it is being written.                   *)
(***************************************************************************)
EXTENDS Integers, Sequences, FiniteSets, TLC

\* ------------------------------------------------------------------ bounds
\* most segment files in the data directory
MaxFiles == 2
\* most blocks in one segment file
MaxBlocks == 2
\* most lines in the series file
MaxLines == 1
\* most executions of the command over the same data directory
MaxRuns == 2
\* most I/O failures injected over one behaviour
MaxFaults == 1

\* ----------------------------------------------------------- string helpers
\* strings.Builder / "+" on strings
RECURSIVE Join(_, _)
Join(parts, sep) ==
  IF parts = <<>> THEN <<>>
  ELSE IF Len(parts) = 1 THEN parts[1]
  ELSE parts[1] \o sep \o Join(Tail(parts), sep)

\* bytes.Index / strings.Index: first position of sub in s, 0 when absent
RECURSIVE IndexFrom(_, _, _)
IndexFrom(s, sub, i) ==
  IF i + Len(sub) - 1 > Len(s) THEN 0
  ELSE IF SubSeq(s, i, i + Len(sub) - 1) = sub THEN i
  ELSE IndexFrom(s, sub, i + 1)

Index(s, sub) == IndexFrom(s, sub, 1)

\* strings.Split(s, sep) for a non-empty separator
RECURSIVE Split(_, _)
Split(s, sep) ==
  LET i == Index(s, sep) IN
  IF i = 0 THEN <<s>>
  ELSE <<SubSeq(s, 1, i - 1)>> \o Split(SubSeq(s, i + Len(sep), Len(s)), sep)

\* Go's < on strings: bytewise lexicographic order
RECURSIVE StrLess(_, _)
StrLess(s, t) ==
  IF t = <<>> THEN FALSE
  ELSE IF s = <<>> THEN TRUE
  ELSE IF s[1] # t[1] THEN s[1] < t[1]
  ELSE StrLess(Tail(s), Tail(t))

\* position of the last occurrence of the one-character string c in s, 0 when absent
RECURSIVE LastIndexFrom(_, _, _)
LastIndexFrom(s, c, i) ==
  IF i = 0 THEN 0
  ELSE IF <<s[i]>> = c THEN i
  ELSE LastIndexFrom(s, c, i - 1)

\* os.PathSeparator, "/"
PathSeparator == <<47>>
Dot == <<46>>
Comma == <<44>>
Equals == <<61>>

\* filepath.Ext: the suffix of the last path element from its last dot
Ext(path) ==
  LET elems == Split(path, PathSeparator)
      last  == elems[Len(elems)]
      i     == LastIndexFrom(last, Dot, Len(last))
  IN IF i = 0 THEN <<>> ELSE SubSeq(last, i, Len(last))

\* tsm1.TSMFileExtension, "tsm"
TSMFileExtension == <<116, 115, 109>>

\* filepath.Rel(base, path) for a path below base
Rel(base, path) == SubSeq(path, Len(base) + Len(PathSeparator) + 1, Len(path))

\* ------------------------------------------------------------- series keys
\* tsm1's separator between series key and field inside a composite key, "#!~#"
keyFieldSeparator == <<35, 33, 126, 35>>

\* tsm1.SeriesAndFieldFromCompositeKey: <<series key, field>>
SeriesAndFieldFromCompositeKey(key) ==
  LET sep == Index(key, keyFieldSeparator) IN
  IF sep = 0 THEN <<key, <<>>>>
  ELSE <<SubSeq(key, 1, sep - 1),
         SubSeq(key, sep + Len(keyFieldSeparator), Len(key))>>

\* models.ParseKey: the measurement and the tags (in the key's order) of a
\* series key "measurement,k1=v1,k2=v2"
ParseKey(seriesBytes) ==
  LET parts == Split(seriesBytes, Comma)
      tag(t) == LET i == Index(t, Equals) IN
                [Key |-> SubSeq(t, 1, i - 1), Value |-> SubSeq(t, i + 1, Len(t))]
  IN [measurement |-> parts[1],
      tags |-> [i \in 1..(Len(parts) - 1) |-> tag(parts[i + 1])]]

\* the loop of formatSerieKey from tag idx on
RECURSIVE formatTags(_, _)
formatTags(tags, idx) ==
  IF idx > Len(tags) THEN <<>>
  ELSE tags[idx].Key \o Equals \o tags[idx].Value
       \o (IF idx - 1 < Len(tags) - 1 THEN Comma ELSE <<>>)
       \o formatTags(tags, idx + 1)

\* Command.formatSerieKey: "%s," of the measurement, then "%s=%s" per tag with
\* a comma after every tag but the last
formatSerieKey(seriesBytes) ==
  LET k == ParseKey(seriesBytes) IN
  k.measurement \o Comma \o formatTags(k.tags, 1)

\* ------------------------------------------------------------ input universe
\* names: "d", "f", "a", "b", "r", "s", "s-", "x.tsm", "z.tsm"
dataDir == <<100>>
SeriesFilePath == <<102>>
NameA == <<97>>
NameB == <<98>>
NameR == <<114>>
NameS == <<115>>
NameSDash == <<115, 45>>
FileX == <<120>> \o Dot \o TSMFileExtension
FileZ == <<122>> \o Dot \o TSMFileExtension

\* a path below the data directory from its components
Under(comps) == Join(<<dataDir>> \o comps, PathSeparator)

\* the files a data directory may hold: a segment directly in the data
\* directory, one directly in a database directory, two in shard directories
\* of a/r whose walk order differs from their string order, and one of
\* another database
FilePool ==
  { Under(<<FileX>>),
    Under(<<NameA, FileX>>),
    Under(<<NameA, NameR, NameS, FileZ>>),
    Under(<<NameA, NameR, NameSDash, FileX>>),
    Under(<<NameB, NameR, FileX>>) }

\* series keys "m", "m,h=a", "m,h=b", "m,h=a,r=x" and the line "m,"
KeyM == <<109>>
KeyMa == <<109, 44, 104, 61, 97>>
KeyMb == <<109, 44, 104, 61, 98>>
KeyMax == <<109, 44, 104, 61, 97, 44, 114, 61, 120>>
LineMComma == <<109, 44>>

SeriesPool == {KeyM, KeyMa, KeyMb, KeyMax}
LinePool == SeriesPool \cup {LineMComma}

\* a series key with a control character in a tag value: "m,h=" and U+0001
KeyCtl == <<109, 44, 104, 61, 1>>

CompositeKey(series, field) == series \o keyFieldSeparator \o field

\* blocks: composite key, time range, payload; fields "v" and "w"
BlockPool ==
  { [key |-> CompositeKey(KeyM, <<118>>), minTime |-> 1, maxTime |-> 2, block |-> <<1>>],
    [key |-> CompositeKey(KeyMa, <<118>>), minTime |-> 1, maxTime |-> 3, block |-> <<2>>],
    [key |-> CompositeKey(KeyMa, <<119>>), minTime |-> 2, maxTime |-> 4, block |-> <<3>>],
    [key |-> CompositeKey(KeyMb, <<118>>), minTime |-> 3, maxTime |-> 5, block |-> <<4>>],
    [key |-> CompositeKey(KeyMax, <<118>>), minTime |-> 4, maxTime |-> 6, block |-> <<5>>] }

\* a block of the series with the control character
ControlBlock ==
  [key |-> CompositeKey(KeyCtl, <<118>>), minTime |-> 5, maxTime |-> 7, block |-> <<6>>]

SeqsUpTo(S, n) == UNION {[1..k -> S] : k \in 0..n}

\* ------------------------------------------------------------------ state
VARIABLES
  cmd,          \* the Command: flags, tsmFiles, series
  run,          \* where Run, walkTSMFiles, deleteSeries and deleteFromTSMFiles are
  proc,         \* the frame of processTSMFile
  other,        \* the frame of a second, concurrent call of processTSMFile
                \* while the first one takes its steps
  fs,           \* the files below the data directory: path -> [blocks, index]
  seriesLines,  \* the lines of the series file
  faults,       \* I/O failures so far
  runs,         \* executions of the command so far
  log,          \* history: per unit, the calls of processTSMFile of this
                \* execution that have returned, in order
  rewritten,    \* history: per path, what the last rewrite that returned nil left
  orig,         \* history: the files before the first execution
  fsStart       \* history: the files when the current execution started

vars == <<cmd, run, proc, other, fs, seriesLines, faults, runs, log, rewritten, orig, fsStart>>

Range(f) == {f[i] : i \in DOMAIN f}

RemoveKey(f, k) == [q \in DOMAIN f \ {k} |-> f[q]]

\* a segment file as the reader and the writer see it
Segment(blocks, index) == [blocks |-> blocks, index |-> index]

IsTSM(path) == Ext(path) = Dot \o TSMFileExtension

\* the block of the pool with the given series key and field "v"
BlockOf(series) == CHOOSE b \in BlockPool : b.key = CompositeKey(series, <<118>>)

\* ".rewriting.tmp" and ".idx.tmp"
RewritingTmp == <<46, 114, 101, 119, 114, 105, 116, 105, 110, 103, 46, 116, 109, 112>>

IdxTmp == <<46, 105, 100, 120, 46, 116, 109, 112>>

\* one temporary file for every segment, in the data directory
OutputPathInDataDir(path) == dataDir \o PathSeparator \o Tail(RewritingTmp)

\* line 179
OutputPath(path) == path \o RewritingTmp

\* the executions drawn: any directory of at most MaxFiles segment files, each
\* holding the blocks of series m,h=a and m,h=b, with the series file "m,h=a";
\* one segment file of any blocks with that series file; or one segment file
\* holding the blocks of series m and m,h=a,r=x with any series file; or one
\* segment file with a block of series m,h=a and one of the series with the
\* control character, the series file naming that series, with or without
\* -sanitize; or one segment file with the default blocks and series file,
\* beside it the temporary file, its index temporary file or both, as an
\* interrupted rewrite left them
DefaultBlocks == <<BlockOf(KeyMa), BlockOf(KeyMb)>>

DefaultLines == <<KeyMa>>

OtherBlocks == <<BlockOf(KeyM), BlockOf(KeyMax)>>

ControlBlocks == <<BlockOf(KeyMa), ControlBlock>>

ControlLines == <<KeyCtl>>

OneFile == Under(<<NameA, NameR, NameS, FileZ>>)

\* what an interrupted rewrite left at the temporary paths: blocks written
\* without an index, and an index file
StaleOutput == Segment(OtherBlocks, FALSE)

StaleIdx == Segment(<<>>, FALSE)

StalePaths == {OutputPath(OneFile), OutputPath(OneFile) \o IdxTmp}

Layouts ==
  { [f \in L |-> Segment(DefaultBlocks, TRUE)] :
      L \in {M \in SUBSET FilePool : Cardinality(M) <= MaxFiles} }

\* NewCommand, and the flags fs.Parse leaves in it
NewCommand(database, retentionPolicy, seriesFile, sanitize) ==
  [database |-> database, retentionPolicy |-> retentionPolicy,
   seriesFile |-> seriesFile, sanitize |-> sanitize,
   tsmFiles |-> <<>>, series |-> {}]

RunEntry ==
  [pc |-> "Run", ret |-> "none", walkPos |-> 1, unitsLeft |-> {},
   unit |-> <<>>, files |-> <<>>, fileIdx |-> 1]

ProcIdle ==
  [pc |-> "idle", path |-> <<>>, input |-> Segment(<<>>, FALSE), itrPos |-> 1,
   cur |-> <<>>, serieKey |-> <<>>, dropped |-> 0, w |-> "none", out |-> <<>>,
   overlapped |-> FALSE, ret |-> "none"]

Init ==
  /\ \/ /\ fs \in Layouts
        /\ seriesLines = DefaultLines
        /\ \E db \in {<<>>, NameA}, rp \in {<<>>, NameR}, sf \in {<<>>, SeriesFilePath} :
             cmd = NewCommand(db, rp, sf, FALSE)
     \/ /\ \E blocks \in SeqsUpTo(BlockPool, MaxBlocks) :
             fs = [f \in {OneFile} |-> Segment(blocks, TRUE)]
        /\ seriesLines = DefaultLines
        /\ cmd = NewCommand(<<>>, <<>>, SeriesFilePath, FALSE)
     \/ /\ fs = [f \in {OneFile} |-> Segment(OtherBlocks, TRUE)]
        /\ seriesLines \in SeqsUpTo(LinePool, MaxLines)
        /\ cmd = NewCommand(<<>>, <<>>, SeriesFilePath, FALSE)
     \/ /\ fs = [f \in {OneFile} |-> Segment(ControlBlocks, TRUE)]
        /\ seriesLines = ControlLines
        /\ \E sanitize \in BOOLEAN :
             cmd = NewCommand(<<>>, <<>>, SeriesFilePath, sanitize)
     \/ /\ \E stale \in (SUBSET StalePaths) \ {{}} :
             fs = [f \in {OneFile} \cup stale |->
                     IF f = OneFile THEN Segment(DefaultBlocks, TRUE)
                     ELSE IF f = OutputPath(OneFile) THEN StaleOutput
                     ELSE StaleIdx]
        /\ seriesLines = DefaultLines
        /\ cmd = NewCommand(<<>>, <<>>, SeriesFilePath, FALSE)
  /\ run = RunEntry
  /\ proc = ProcIdle
  /\ other = ProcIdle
  /\ faults = 0
  /\ runs = 1
  /\ log = <<>>
  /\ rewritten = <<>>
  /\ orig = fs
  /\ fsStart = fs

\* an I/O call that fails
Fault == faults < MaxFaults /\ faults' = faults + 1

\* ------------------------------------------------------------ Command.Run
\* Run returns err
RunReturn(err) == run' = [run EXCEPT !.pc = "done", !.ret = err]

\* Run, lines 67-69: the -seriesFile flag is required
RunCheckFlags ==
  /\ run.pc = "Run"
  /\ IF cmd.seriesFile = <<>>
       THEN RunReturn("-seriesFile flag required")
       ELSE run' = [run EXCEPT !.pc = "walkTSMFiles"]
  /\ UNCHANGED <<cmd, proc, other, fs, seriesLines, faults, runs, log, rewritten, orig, fsStart>>

\* a Run that goes on after a failed walk
RunIgnoringWalk(err) == run' = [run EXCEPT !.pc = "parseSeriesFile"]

\* Run, lines 71-73: what Run does with the result of walkTSMFiles
RunAfterWalk(err) ==
  IF err # "nil" THEN RunReturn(err)
  ELSE run' = [run EXCEPT !.pc = "parseSeriesFile"]

\* Run, lines 75-85: what Run does with the result of parseSeriesFile
RunAfterParse(err) ==
  IF err # "nil" THEN RunReturn(err)
  ELSE run' = [run EXCEPT !.pc = "deleteSeries", !.unitsLeft = DOMAIN cmd.tsmFiles,
                          !.files = <<>>, !.fileIdx = 1]

\* -------------------------------------------------------- walkTSMFiles
\* filepath.Walk's order: lexical by name inside each directory, depth first
RECURSIVE ElemsLess(_, _)
ElemsLess(a, b) ==
  IF b = <<>> THEN FALSE
  ELSE IF a = <<>> THEN TRUE
  ELSE IF a[1] # b[1] THEN StrLess(a[1], b[1])
  ELSE ElemsLess(Tail(a), Tail(b))

WalkLess(p, q) == ElemsLess(Split(p, PathSeparator), Split(q, PathSeparator))

RECURSIVE WalkSeq(_)
WalkSeq(S) ==
  IF S = {} THEN <<>>
  ELSE LET m == CHOOSE p \in S : \A q \in S \ {p} : WalkLess(p, q)
       IN <<m>> \o WalkSeq(S \ {m})

\* the files filepath.Walk(cmd.dataDir, ...) hands to the callback, in order
WalkList == WalkSeq(DOMAIN fs)

\* the map cmd.tsmFiles after append(cmd.tsmFiles[key], path)
AppendFile(tsmFiles, key, path) ==
  IF key \in DOMAIN tsmFiles
    THEN [tsmFiles EXCEPT ![key] = Append(@, path)]
    ELSE (key :> <<path>>) @@ tsmFiles

\* the retention policy is compared with the database directory
MatchesFiltersSameDir(dirs) ==
  /\ dirs[1] = cmd.database \/ cmd.database = <<>>
  /\ dirs[1] = cmd.retentionPolicy \/ cmd.retentionPolicy = <<>>

\* lines 109-110: the database and retention policy filters
MatchesFilters(dirs) ==
  /\ dirs[1] = cmd.database \/ cmd.database = <<>>
  /\ dirs[2] = cmd.retentionPolicy \/ cmd.retentionPolicy = <<>>

\* the callback of filepath.Walk on one file, lines 91-116: <<error, tsmFiles>>
WalkFn(path) ==
  IF ~IsTSM(path) THEN <<"nil", cmd.tsmFiles>>
  ELSE LET relPath == Rel(dataDir, path)
           dirs    == Split(relPath, PathSeparator)
       IN IF Len(dirs) < 2 THEN <<"invalid directory structure", cmd.tsmFiles>>
          ELSE IF MatchesFilters(dirs)
            THEN <<"nil", AppendFile(cmd.tsmFiles,
                                     Join(<<dirs[1], dirs[2]>>, PathSeparator), path)>>
            ELSE <<"nil", cmd.tsmFiles>>

\* walkTSMFiles: one step of the walk; the walk ends at the first error, or
\* returns nil after the last file
walkTSMFiles ==
  /\ run.pc = "walkTSMFiles"
  /\ UNCHANGED <<proc, other, fs, seriesLines, runs, log, rewritten, orig, fsStart>>
  /\ \/ /\ run.walkPos <= Len(WalkList)
        /\ LET r == WalkFn(WalkList[run.walkPos]) IN
             /\ cmd' = [cmd EXCEPT !.tsmFiles = r[2]]
             /\ IF r[1] # "nil" THEN RunAfterWalk(r[1])
                ELSE run' = [run EXCEPT !.walkPos = @ + 1]
        /\ UNCHANGED faults
     \/ /\ Fault
        /\ RunAfterWalk("walk error")
        /\ UNCHANGED cmd
     \/ /\ run.walkPos > Len(WalkList)
        /\ RunAfterWalk("nil")
        /\ UNCHANGED <<cmd, faults>>

\* ------------------------------------------------------- parseSeriesFile
\* parseSeriesFile, lines 119-136: every line becomes a key of cmd.series; a
\* failed open reads nothing, a failed read leaves the lines read before it
parseSeriesFile ==
  /\ run.pc = "parseSeriesFile"
  /\ UNCHANGED <<proc, other, fs, seriesLines, runs, log, rewritten, orig, fsStart>>
  /\ \/ /\ cmd' = [cmd EXCEPT !.series = @ \cup Range(seriesLines)]
        /\ RunAfterParse("nil")
        /\ UNCHANGED faults
     \/ /\ Fault
        /\ RunAfterParse("open error")
        /\ UNCHANGED cmd
     \/ /\ Fault
        /\ \E n \in 0..Len(seriesLines) :
             cmd' = [cmd EXCEPT !.series = @ \cup Range(SubSeq(seriesLines, 1, n))]
        /\ RunAfterParse("read error")

\* ------------------------------------------------------------ deleteSeries
\* sort.Strings: insertion of one string into a sorted slice
RECURSIVE InsertSorted(_, _)
InsertSorted(x, s) ==
  IF s = <<>> THEN <<x>>
  ELSE IF StrLess(x, s[1]) THEN <<x>> \o s
  ELSE <<s[1]>> \o InsertSorted(x, Tail(s))

RECURSIVE SortStrings(_)
SortStrings(s) ==
  IF s = <<>> THEN <<>> ELSE InsertSorted(s[1], SortStrings(Tail(s)))

\* the files are left in the order of the walk
UnsortedOrder(files) == files

\* deleteFromTSMFiles, line 153: the order in which the files are processed
ProcessingOrder(files) == SortStrings(files)

\* Run, lines 83-87, and deleteSeries, lines 142-148: what they do with the
\* result of deleteFromTSMFiles on one unit
AfterUnit(err) ==
  IF err # "nil" THEN RunReturn(err)
  ELSE run' = [run EXCEPT !.pc = "deleteSeries", !.files = <<>>, !.fileIdx = 1]

\* deleteSeries, lines 139-148: the next key of cmd.tsmFiles, in the map's
\* order (any), and the call of deleteFromTSMFiles, which sorts the slice in
\* place; nil once every key has been visited
deleteSeries ==
  /\ run.pc = "deleteSeries"
  /\ UNCHANGED <<proc, other, fs, seriesLines, faults, runs, log, rewritten, orig, fsStart>>
  /\ \/ /\ run.unitsLeft = {}
        /\ RunReturn("nil")
        /\ UNCHANGED cmd
     \/ \E key \in run.unitsLeft :
          LET files == ProcessingOrder(cmd.tsmFiles[key]) IN
          /\ cmd' = [cmd EXCEPT !.tsmFiles[key] = files]
          /\ run' = [run EXCEPT !.pc = "deleteFromTSMFiles", !.unitsLeft = @ \ {key},
                                !.unit = key, !.files = files, !.fileIdx = 1]

\* deleteFromTSMFiles, lines 155-158: what the loop does with the result of
\* processTSMFile(file): the result is dropped and the loop goes on
AfterFile(err) == run' = [run EXCEPT !.fileIdx = @ + 1]

\* the history with one more returned call in the unit
Logged(l, unit, call) ==
  IF unit \in DOMAIN l THEN [l EXCEPT ![unit] = Append(@, call)]
  ELSE (unit :> <<call>>) @@ l

\* deleteFromTSMFiles, lines 155-160: the loop over the sorted files
deleteFromTSMFiles ==
  /\ run.pc = "deleteFromTSMFiles"
  /\ UNCHANGED <<cmd, other, fs, seriesLines, faults, runs, orig, fsStart>>
  /\ \/ /\ proc.pc = "idle"
        /\ run.fileIdx <= Len(run.files)
        /\ proc' = [ProcIdle EXCEPT !.pc = "Open", !.path = run.files[run.fileIdx]]
        /\ UNCHANGED <<run, log, rewritten>>
     \/ /\ proc.pc = "return"
        /\ log' = Logged(log, run.unit, [path |-> proc.path, ret |-> proc.ret])
        /\ rewritten' = IF proc.ret = "nil"
                          THEN (proc.path :> [dropped |-> proc.dropped,
                                              blocks |-> fs[proc.path].blocks])
                               @@ rewritten
                          ELSE rewritten
        /\ proc' = ProcIdle
        /\ AfterFile(proc.ret)
     \/ /\ proc.pc = "idle"
        /\ run.fileIdx > Len(run.files)
        /\ AfterUnit("nil")
        /\ UNCHANGED <<proc, log, rewritten>>

\* ---------------------------------------------------------- processTSMFile
\* processTSMFile returns err; the deferred output.Close() gives up the descriptor
Return(err) == proc' = [proc EXCEPT !.pc = "return", !.ret = err, !.out = <<>>]

\* a failing step that removes the temporary file
FailsRemovingOutput ==
  Fault /\ Return("err") /\ fs' = RemoveKey(fs, OutputPath(proc.path))

\* the step fails: processTSMFile returns the error (the deferred Close calls
\* change no file)
Fails == Fault /\ Return("err") /\ UNCHANGED fs

Goto(pc) == proc' = [proc EXCEPT !.pc = pc]

RunFrame == UNCHANGED <<cmd, run, seriesLines, runs, log, rewritten, orig, fsStart>>

ProcFrame == RunFrame /\ UNCHANGED other

\* the descriptor of a frame after the file at path was unlinked: the frame
\* goes on writing to a file that has no name
Unlinked(frame, path) ==
  IF frame.out = path THEN [frame EXCEPT !.out = <<>>] ELSE frame

\* the descriptor of a frame after the file at from was renamed to to: a file
\* open at from is now at to, a file open at to has no name any more
Renamed(frame, from, to) ==
  IF frame.out = from THEN [frame EXCEPT !.out = to]
  ELSE IF frame.out = to THEN [frame EXCEPT !.out = <<>>]
  ELSE frame

\* the call of the frame is between its removal of the temporary file and
\* the return of its rename
InSection(frame) ==
  frame.pc \in {"RemoveAllIdx", "Create", "NewTSMWriter", "Next", "Match",
                "WriteIndex", "Close", "Rename"}

\* history: the frame once another call has removed its temporary file while
\* the call of the frame was in that section
Overlapping(frame) ==
  IF InSection(frame) THEN [frame EXCEPT !.overlapped = TRUE] ELSE frame

\* the file the descriptor of the writer refers to; what a file without a
\* name holds is not kept
Output == IF proc.out = <<>> THEN Segment(<<>>, FALSE) ELSE fs[proc.out]

\* the files after the writer has made its output file hold content
WriteOut(content) ==
  IF proc.out = <<>> THEN fs ELSE [fs EXCEPT ![proc.out] = content]

\* lines 166-170: os.Open(path)
Open ==
  /\ proc.pc = "Open" /\ ProcFrame
  /\ \/ Goto("NewTSMReader") /\ UNCHANGED <<fs, faults>>
     \/ Fails

\* lines 172-176: tsm1.NewTSMReader(input) reads the index of the file
NewTSMReader ==
  /\ proc.pc = "NewTSMReader" /\ ProcFrame
  /\ \/ /\ fs[proc.path].index
        /\ proc' = [proc EXCEPT !.pc = "RemoveAll", !.input = fs[proc.path]]
        /\ UNCHANGED <<fs, faults>>
     \/ /\ ~fs[proc.path].index
        /\ Return("err")
        /\ UNCHANGED <<fs, faults>>
     \/ Fails

\* lines 179-181: os.RemoveAll(outputPath)
RemoveAllOutput ==
  /\ proc.pc = "RemoveAll" /\ RunFrame
  /\ \/ /\ fs' = RemoveKey(fs, OutputPath(proc.path))
        /\ other' = Overlapping(Unlinked(other, OutputPath(proc.path)))
        /\ Goto("RemoveAllIdx")
        /\ UNCHANGED faults
     \/ Fails /\ UNCHANGED other

\* the index temporary file is left where it is
RemoveAllIdxSkipped ==
  /\ proc.pc = "RemoveAllIdx" /\ ProcFrame
  /\ Goto("Create")
  /\ UNCHANGED <<fs, faults>>

\* lines 182-184: os.RemoveAll(outputPath + ".idx.tmp")
RemoveAllIdx ==
  /\ proc.pc = "RemoveAllIdx" /\ ProcFrame
  /\ \/ /\ fs' = RemoveKey(fs, OutputPath(proc.path) \o IdxTmp)
        /\ Goto("Create")
        /\ UNCHANGED faults
     \/ Fails

\* the output is created at the path of the segment
CreateInPlace ==
  /\ proc.pc = "Create" /\ ProcFrame
  /\ fs' = (proc.path :> Segment(<<>>, FALSE)) @@ fs
  /\ proc' = [proc EXCEPT !.pc = "NewTSMWriter", !.w = "created", !.out = proc.path]
  /\ UNCHANGED faults

\* lines 189-193: os.Create(outputPath), which truncates a file that is there
Create ==
  /\ proc.pc = "Create" /\ ProcFrame
  /\ \/ /\ fs' = (OutputPath(proc.path) :> Segment(<<>>, FALSE)) @@ fs
        /\ proc' = [proc EXCEPT !.pc = "NewTSMWriter", !.w = "created",
                                !.out = OutputPath(proc.path)]
        /\ UNCHANGED faults
     \/ Fails

\* lines 195-203: tsm1.NewTSMWriter(output), r.BlockIterator()
NewTSMWriter ==
  /\ proc.pc = "NewTSMWriter" /\ ProcFrame
  /\ \/ /\ proc' = [proc EXCEPT !.pc = "Next", !.itrPos = 1, !.dropped = 0, !.w = "open"]
        /\ UNCHANGED <<fs, faults>>
     \/ Fails

\* lines 204-216: itr.Next(), itr.Read() and the series key of the block
IterNext ==
  /\ proc.pc = "Next" /\ ProcFrame
  /\ \/ /\ proc.itrPos <= Len(proc.input.blocks)
        /\ LET b == proc.input.blocks[proc.itrPos]
               seriesBytes == SeriesAndFieldFromCompositeKey(b.key)[1]
           IN proc' = [proc EXCEPT !.pc = "Match", !.cur = b,
                                   !.serieKey = formatSerieKey(seriesBytes)]
        /\ UNCHANGED <<fs, faults>>
     \/ /\ proc.itrPos <= Len(proc.input.blocks)
        /\ Fails
     \/ /\ proc.itrPos > Len(proc.input.blocks)
        /\ Goto("WriteIndex")
        /\ UNCHANGED <<fs, faults>>

\* line 217: the block is dropped
Dropped(serieKey) == serieKey \in cmd.series

\* a WriteBlock call that passes minTime twice
WriteBlockMinTwice(out, b) ==
  [out EXCEPT !.blocks = Append(@, [key |-> b.key, minTime |-> b.minTime,
                                    maxTime |-> b.minTime, block |-> b.block])]

\* line 228: w.WriteBlock(key, minTime, maxTime, block)
WriteBlock(out, b) ==
  [out EXCEPT !.blocks = Append(@, [key |-> b.key, minTime |-> b.minTime,
                                    maxTime |-> b.maxTime, block |-> b.block])]

\* a dropped series key is deleted from cmd.series
MatchForgettingKey ==
  /\ proc.pc = "Match"
  /\ UNCHANGED <<run, other, seriesLines, faults, runs, log, rewritten, orig, fsStart>>
  /\ \/ /\ Dropped(proc.serieKey)
        /\ cmd' = [cmd EXCEPT !.series = @ \ {proc.serieKey}]
        /\ proc' = [proc EXCEPT !.pc = "Next", !.itrPos = @ + 1, !.dropped = @ + 1]
        /\ UNCHANGED fs
     \/ /\ ~Dropped(proc.serieKey)
        /\ fs' = WriteOut(WriteBlock(Output, proc.cur))
        /\ proc' = [proc EXCEPT !.pc = "Next", !.itrPos = @ + 1]
        /\ UNCHANGED cmd

\* lines 217-230: drop the block or write it to the output
Match ==
  /\ proc.pc = "Match" /\ ProcFrame
  /\ \/ /\ Dropped(proc.serieKey)
        /\ proc' = [proc EXCEPT !.pc = "Next", !.itrPos = @ + 1, !.dropped = @ + 1]
        /\ UNCHANGED <<fs, faults>>
     \/ /\ ~Dropped(proc.serieKey)
        /\ fs' = WriteOut(WriteBlock(Output, proc.cur))
        /\ proc' = [proc EXCEPT !.pc = "Next", !.itrPos = @ + 1]
        /\ UNCHANGED faults
     \/ /\ ~Dropped(proc.serieKey)
        /\ Fails

\* the index is never written
WriteIndexSkipped ==
  /\ proc.pc = "WriteIndex" /\ ProcFrame
  /\ Goto("Close")
  /\ UNCHANGED <<fs, faults>>

\* lines 236-237: w.WriteIndex()
WriteIndex ==
  /\ proc.pc = "WriteIndex" /\ ProcFrame
  /\ \/ /\ fs' = WriteOut([Output EXCEPT !.index = TRUE])
        /\ proc' = [proc EXCEPT !.pc = "Close", !.w = "indexed"]
        /\ UNCHANGED faults
     \/ Fails

\* a Close that does not flush the last block written
CloseLosingTail ==
  /\ proc.pc = "Close" /\ ProcFrame
  /\ fs' = [fs EXCEPT ![OutputPath(proc.path)].blocks =
                        SubSeq(@, 1, IF Len(@) = 0 THEN 0 ELSE Len(@) - 1)]
  /\ proc' = [proc EXCEPT !.pc = "Rename", !.w = "closed", !.out = <<>>]
  /\ UNCHANGED faults

\* lines 238-240: w.Close()
Close ==
  /\ proc.pc = "Close" /\ ProcFrame
  /\ \/ /\ proc' = [proc EXCEPT !.pc = "Rename", !.w = "closed", !.out = <<>>]
        /\ UNCHANGED <<fs, faults>>
     \/ Fails

\* line 243: os.Rename(outputPath, path); it fails when no file is at
\* outputPath
Rename ==
  /\ proc.pc = "Rename" /\ RunFrame
  /\ \/ /\ OutputPath(proc.path) \in DOMAIN fs
        /\ fs' = RemoveKey([fs EXCEPT ![proc.path] = fs[OutputPath(proc.path)]],
                           OutputPath(proc.path))
        /\ other' = Renamed(other, OutputPath(proc.path), proc.path)
        /\ Return("nil")
        /\ UNCHANGED faults
     \/ /\ OutputPath(proc.path) \notin DOMAIN fs
        /\ Return("err")
        /\ UNCHANGED <<fs, faults, other>>
     \/ Fails /\ UNCHANGED other

processTSMFile ==
  \/ Open \/ NewTSMReader \/ RemoveAllOutput \/ RemoveAllIdx \/ Create
  \/ NewTSMWriter \/ IterNext \/ Match \/ WriteIndex \/ Close \/ Rename

\* the command is executed again over the same data directory, with the same flags
Rerun ==
  /\ run.pc = "done"
  /\ runs < MaxRuns
  /\ runs' = runs + 1
  /\ cmd' = NewCommand(cmd.database, cmd.retentionPolicy, cmd.seriesFile, cmd.sanitize)
  /\ run' = RunEntry
  /\ fsStart' = fs
  /\ log' = <<>>
  /\ UNCHANGED <<proc, other, fs, seriesLines, faults, rewritten, orig>>

Next ==
  \/ RunCheckFlags \/ walkTSMFiles \/ parseSeriesFile \/ deleteSeries
  \/ deleteFromTSMFiles \/ processTSMFile \/ Rerun

Spec == Init /\ [][Next]_vars

\* ------------------------------------------------------ concurrent rewrites
\* Two calls of processTSMFile whose steps interleave, as two rewrites run side
\* by side, or two executions of the command over one data directory, would
\* take them: each step of processTSMFile above is one step of the call that
\* is running, and Switch hands the processor to the other call.
OtherFile == Under(<<NameA, NameR, NameSDash, FileX>>)

OtherFileBlocks == <<BlockOf(KeyMa), BlockOf(KeyMax)>>

\* the command after walkTSMFiles and parseSeriesFile have returned nil
Loaded ==
  [NewCommand(<<>>, <<>>, SeriesFilePath, FALSE) EXCEPT
     !.tsmFiles = (Join(<<NameA, NameR>>, PathSeparator) :> <<OneFile, OtherFile>>),
     !.series = Range(DefaultLines)]

\* processTSMFile(path) has been called
Called(path) == [ProcIdle EXCEPT !.pc = "Open", !.path = path]

\* two segment files of one unit; one call on the first, the other call on
\* the same file or on the second
InitConcurrent ==
  /\ fs = (OneFile :> Segment(DefaultBlocks, TRUE))
          @@ (OtherFile :> Segment(OtherFileBlocks, TRUE))
  /\ seriesLines = DefaultLines
  /\ cmd = Loaded
  /\ run = [RunEntry EXCEPT !.pc = "concurrent"]
  /\ proc = Called(OneFile)
  /\ other \in {Called(OneFile), Called(OtherFile)}
  /\ faults = 0
  /\ runs = 1
  /\ log = <<>>
  /\ rewritten = <<>>
  /\ orig = fs
  /\ fsStart = fs

\* the other call takes the next steps
Switch ==
  /\ run.pc = "concurrent"
  /\ proc' = other
  /\ other' = proc
  /\ UNCHANGED <<cmd, run, fs, seriesLines, faults, runs, log, rewritten, orig, fsStart>>

NextConcurrent == processTSMFile \/ Switch

SpecConcurrent == InitConcurrent /\ [][NextConcurrent]_vars

\* ------------------------------------------------------------------ claims
\* the filter set the series file describes
FilterSet == Range(seriesLines)

\* the series key the rewriter derives for each block
DerivedKeys ==
  [b \in BlockPool \cup {ControlBlock} |-> formatSerieKey(SeriesAndFieldFromCompositeKey(b.key)[1])]

DerivedKey(b) == DerivedKeys[b]

\* every path a file can have: the pool's, and their temporary siblings
AllPaths ==
  FilePool \cup {OutputPath(p) : p \in FilePool}
           \cup {OutputPath(p) \o IdxTmp : p \in FilePool}

\* the paths among them that the walk takes for segment files
AllSegments == {p \in AllPaths : IsTSM(p)}

\* the segment files among the files f
SegmentsOf(f) == DOMAIN f \cap AllSegments

\* the components of each path relative to the data directory
RelComponents == [p \in AllPaths |-> Split(Rel(dataDir, p), PathSeparator)]

\* the blocks of S whose derived series key is not in F, in S's order
RECURSIVE KeptBlocks(_, _)
KeptBlocks(S, F) ==
  IF S = <<>> THEN <<>>
  ELSE (IF DerivedKey(S[1]) \in F THEN <<>> ELSE <<S[1]>>) \o KeptBlocks(Tail(S), F)

\* processTSMFile has just returned nil
ReturnedNil == proc.pc = "return" /\ proc.ret = "nil"

\* the calls of processTSMFile that returned during this execution
ThisRun == UNION {Range(log[unit]) : unit \in DOMAIN log}

SegmentPaths == SegmentsOf(orig)

\* C2: at every moment, whatever step fails or wherever the execution stops,
\* every segment path holds the complete original segment or the complete
\* filtered one with its index; and a segment path changes only by the rename,
\* after WriteIndex and Close have returned nil.
C2_OriginalOrFilteredNeverPartial ==
  /\ [](\A p \in SegmentPaths :
          /\ p \in DOMAIN fs
          /\ fs[p] \in {orig[p], Segment(KeptBlocks(orig[p].blocks, FilterSet), TRUE)})
  /\ [][\A p \in SegmentPaths :
          fs'[p] # fs[p] =>
            /\ proc.pc = "Rename" /\ proc.path = p /\ proc.w = "closed"
            /\ fs[OutputPath(p)].index
            /\ fs'[p] = fs[OutputPath(p)]]_vars

\* a rewrite failed after it had written a block to the temporary file, and
\* the segment is the original
C2_Witness ==
  /\ proc.pc = "return" /\ proc.ret = "err"
  /\ OutputPath(proc.path) \in DOMAIN fs
  /\ fs[OutputPath(proc.path)].blocks # <<>>
  /\ ~fs[OutputPath(proc.path)].index
  /\ fs[proc.path] = orig[proc.path]
  /\ KeptBlocks(orig[proc.path].blocks, FilterSet) # orig[proc.path].blocks

\* an execution before this one rewrote the path processTSMFile is working on
RewrittenBefore == proc.path \in DOMAIN rewritten

\* C3: a rewrite of a segment that an earlier rewrite with the same filter set
\* produced drops no block and leaves the block sequence as that rewrite left
\* it; so does every rewrite of a second execution of the command.
C3_SecondRewriteIsNoOp ==
  (ReturnedNil /\ RewrittenBefore) =>
    /\ proc.dropped = 0
    /\ fs[proc.path].blocks = rewritten[proc.path].blocks

\* a second rewrite returned nil on a segment whose first rewrite dropped a
\* block and kept one
C3_Witness ==
  /\ ReturnedNil
  /\ RewrittenBefore
  /\ rewritten[proc.path].dropped > 0
  /\ rewritten[proc.path].blocks # <<>>

\* ---- the directory walk
\* the files of the walk of this execution, in the walk's order
WalkedList == WalkSeq(DOMAIN fsStart)

\* the components of a file's path relative to the data directory
Components(p) == RelComponents[p]

\* path p is in the deletion unit key
InUnit(p, key) == key \in DOMAIN cmd.tsmFiles /\ p \in Range(cmd.tsmFiles[key])

Located(p) == \E key \in DOMAIN cmd.tsmFiles : InUnit(p, key)

\* nothing below the data directory has changed during this execution, and no
\* rewrite has started
Untouched == fs = fsStart /\ ThisRun = {} /\ proc.pc = "idle"

\* the rewrite phase of this execution has started
Rewriting == run.pc \in {"deleteSeries", "deleteFromTSMFiles"} \/ run.ret = "nil"

\* C4: when the -seriesFile flag is missing, the walk fails or the series
\* file cannot be opened or read, Run returns the error with no file changed,
\* no temporary file created and no rename done; the rewrite phase starts
\* only after the whole walk and the whole series file were read without error.
C4_EarlyErrorsTouchNothing ==
  /\ ~Rewriting => Untouched
  /\ run.ret \notin {"none", "nil"} => Untouched
  /\ Rewriting =>
       /\ cmd.seriesFile # <<>>
       /\ run.walkPos = Cardinality(DOMAIN fsStart) + 1
       /\ cmd.series = FilterSet

\* Run has returned the error of a failed walk of a directory that holds a
\* segment file, in the second execution, after files were rewritten
C4_Witness ==
  /\ run.pc = "done"
  /\ run.ret = "walk error"
  /\ fs # orig
  /\ SegmentPaths # {}

\* the walk's callback has run on the i-th file
Visited(i) ==
  /\ run.pc # "Run"
  /\ \/ i < run.walkPos
     \/ i = run.walkPos /\ run.ret = "invalid directory structure"

\* a segment file with no retention policy directory above it
Shallow(p) == p \in AllSegments /\ Len(Components(p)) < 3

\* C5: once the walk has come to a segment file that sits directly in the data
\* directory or directly in a database directory, the walk has failed with
\* the structural error, the file is in no deletion unit and no file has changed.
C5_ShallowSegmentRejected ==
  \A i \in DOMAIN WalkedList :
    (Visited(i) /\ Shallow(WalkedList[i])) =>
      /\ run.ret = "invalid directory structure"
      /\ ~Located(WalkedList[i])
      /\ Untouched

\* C6: Run returns nil only when every call of processTSMFile of the
\* execution returned nil.
C6_RewriteErrorReachesCaller ==
  run.ret = "nil" => \A call \in ThisRun : call.ret = "nil"

\* the calls of this execution on files of the unit, in order
CallsOf(unit) == IF unit \in DOMAIN log THEN log[unit] ELSE <<>>

\* C7: after a rewrite of a file of a deletion unit has failed, no later file
\* of that unit is opened or rewritten.
C7_FailureAbortsUnit ==
  \A unit \in DOMAIN log :
    \A i \in DOMAIN log[unit] :
      log[unit][i].ret # "nil" =>
        /\ i = Len(log[unit])
        /\ (run.pc = "deleteFromTSMFiles" /\ run.unit = unit) =>
             proc.pc \in {"idle", "Open"}

\* ---- the located set
\* the walk of this execution returned nil
WalkReturnedNil ==
  \/ run.pc \in {"parseSeriesFile", "deleteSeries", "deleteFromTSMFiles"}
  \/ run.ret \in {"nil", "open error", "read error"}

\* the filters admit the file
Admitted(p) ==
  /\ cmd.database = <<>> \/ cmd.database = Components(p)[1]
  /\ cmd.retentionPolicy = <<>> \/ cmd.retentionPolicy = Components(p)[2]

UnitKey(p) == Components(p)[1] \o PathSeparator \o Components(p)[2]

\* how many times processTSMFile has been called on p in this execution
RECURSIVE Count(_, _)
Count(calls, p) ==
  IF calls = <<>> THEN 0
  ELSE (IF calls[1].path = p THEN 1 ELSE 0) + Count(Tail(calls), p)

RECURSIVE CountAll(_, _)
CountAll(units, p) ==
  IF units = {} THEN 0
  ELSE LET unit == CHOOSE u \in units : TRUE
       IN Count(log[unit], p) + CountAll(units \ {unit}, p)

Calls(p) ==
  CountAll(DOMAIN log, p) + (IF proc.pc # "idle" /\ proc.path = p THEN 1 ELSE 0)

\* C8: after a walk that returned nil, a segment file is located exactly when
\* the database filter is empty or its first component and the retention
\* filter is empty or its second component; it is then once in the unit of
\* its first two components and in no other; no file is processed twice, and
\* when Run returns nil every located file has been processed once and no
\* other file has.
C8_LocatedIffAdmittedProcessedOnce ==
  WalkReturnedNil =>
    LET segments == SegmentsOf(fsStart) IN
    /\ \A p \in segments :
         LET admitted == Admitted(p)
             unit     == UnitKey(p)
             calls    == Calls(p)
         IN /\ Located(p) <=> admitted
            /\ \A key \in DOMAIN cmd.tsmFiles :
                 /\ InUnit(p, key) <=> (admitted /\ key = unit)
                 /\ Cardinality({n \in DOMAIN cmd.tsmFiles[key] :
                                   cmd.tsmFiles[key][n] = p}) <= 1
            /\ calls <= 1
            /\ run.ret = "nil" => calls = (IF admitted THEN 1 ELSE 0)
    /\ \A key \in DOMAIN cmd.tsmFiles : Range(cmd.tsmFiles[key]) \subseteq segments

\* Run has returned nil with the retention filter set, one file located and
\* processed and another of the same database left out
C8_Witness ==
  /\ run.ret = "nil"
  /\ cmd.retentionPolicy # <<>>
  /\ \E p, q \in SegmentsOf(fsStart) :
       /\ Located(p) /\ Calls(p) = 1
       /\ ~Located(q) /\ Components(q)[1] = Components(p)[1]

\* C9: the files of a deletion unit are rewritten in ascending string order
\* of their paths, one at a time: a call of processTSMFile begins only when
\* every file of the unit before it has returned.
C9_AscendingOneAtATime ==
  /\ \A unit \in DOMAIN log :
       \A i, j \in DOMAIN log[unit] :
         i < j => StrLess(log[unit][i].path, log[unit][j].path)
  /\ (run.pc = "deleteFromTSMFiles" /\ proc.pc # "idle") =>
       LET returned == CallsOf(run.unit) IN
       /\ \A i \in DOMAIN returned : StrLess(returned[i].path, proc.path)
       /\ Len(returned) = run.fileIdx - 1
       /\ \A n \in 1..(run.fileIdx - 1) : returned[n].path = run.files[n]

\* two files of one unit have been rewritten, and the walk had found them in
\* the other order
C9_Witness ==
  \E unit \in DOMAIN log :
    \E i, j \in DOMAIN log[unit] :
      /\ i < j
      /\ WalkLess(log[unit][j].path, log[unit][i].path)

\* ---- series keys
\* the series key part of a composite key
SeriesKeyOf(key) == SubSeq(key, 1, Index(key, keyFieldSeparator) - 1)

\* C10: the series key the rewriter derives for a block is the series key
\* part of the block's composite key, so the block is dropped exactly when
\* that series key is a line of the series file.
C10_DerivedKeyIsSeriesKey ==
  proc.pc = "Match" =>
    /\ proc.serieKey = SeriesKeyOf(proc.cur.key)
    /\ Dropped(proc.serieKey) <=> SeriesKeyOf(proc.cur.key) \in FilterSet

\* ---- the series file
\* unicode.IsPrint on the characters the model draws: the control characters
\* below the space, and DEL, are not printable
NonPrintable(line) == \E i \in DOMAIN line : line[i] < 32 \/ line[i] = 127

\* C11: with -sanitize, no line of the series file that holds a non-printable
\* character is in cmd.series, and no block is dropped for such a line.
C11_SanitizeExcludesNonPrintable ==
  cmd.sanitize =>
    /\ \A key \in cmd.series : ~NonPrintable(key)
    /\ proc.pc = "Match" /\ NonPrintable(proc.serieKey) => ~Dropped(proc.serieKey)

\* ---- the dropped-block count
\* how many blocks of S have their series key in F
RECURSIVE InFilter(_, _)
InFilter(S, F) ==
  IF S = <<>> THEN 0
  ELSE (IF SeriesKeyOf(S[1].key) \in F THEN 1 ELSE 0) + InFilter(Tail(S), F)

\* processTSMFile has reported its dropped-block count (line 233)
Reported == proc.pc \in {"WriteIndex", "Close", "Rename"} \/ ReturnedNil

\* the blocks processTSMFile has written
Written ==
  IF ReturnedNil THEN fs[proc.path].blocks ELSE fs[OutputPath(proc.path)].blocks

\* C12: the dropped-block count processTSMFile reports is the number of
\* blocks of the input whose series key is a line of the series file; that
\* count and the blocks written add up to the blocks of the input; with an
\* empty series file the count is 0 and the blocks written are the input's.
C12_DroppedCountAccounts ==
  Reported =>
    LET input == fsStart[proc.path].blocks IN
    /\ proc.dropped = InFilter(input, FilterSet)
    /\ proc.dropped + Len(Written) = Len(input)
    /\ FilterSet = {} => proc.dropped = 0 /\ Written = input

\* ---- stale temporary files
\* the writer of processTSMFile has the temporary file open
OutputOpen == proc.pc \in {"NewTSMWriter", "Next", "Match", "WriteIndex", "Close", "Rename"}

\* C13: whatever an earlier rewrite left at the temporary path and at the index
\* temporary path, processTSMFile has removed both when it creates its
\* output; the output holds only blocks read from the segment, and the
\* segment after a rewrite that returned nil is the filtered original, as when
\* nothing was left.
C13_StaleTemporariesRemoved ==
  LET output == OutputPath(proc.path)
      idx    == OutputPath(proc.path) \o IdxTmp
  IN /\ proc.pc = "Create" => output \notin DOMAIN fs /\ idx \notin DOMAIN fs
     /\ OutputOpen =>
          /\ idx \notin DOMAIN fs
          /\ Range(fs[output].blocks) \subseteq Range(proc.input.blocks)
     /\ ReturnedNil =>
          /\ output \notin DOMAIN fs /\ idx \notin DOMAIN fs
          /\ fs[proc.path] =
               Segment(KeptBlocks(fsStart[proc.path].blocks, FilterSet), TRUE)

\* a rewrite returned nil on a segment that had, when the execution started,
\* a temporary file with blocks and an index temporary file beside it
C13_Witness ==
  /\ ReturnedNil
  /\ OutputPath(proc.path) \in DOMAIN fsStart
  /\ fsStart[OutputPath(proc.path)].blocks # <<>>
  /\ OutputPath(proc.path) \o IdxTmp \in DOMAIN fsStart

\* ---- failures
\* processTSMFile has returned an error from a step after os.Create
FailedAfterCreate == proc.pc = "return" /\ proc.ret = "err" /\ proc.w # "none"

\* C14 as stated: when processTSMFile returns an error from a step after the
\* temporary file was created, the segment is as it was and the temporary
\* file no longer exists.
C14_FailureDiscardsTemporary ==
  FailedAfterCreate =>
    /\ fs[proc.path] = fsStart[proc.path]
    /\ OutputPath(proc.path) \notin DOMAIN fs

\* C14, amended: when processTSMFile returns an error from a step after the
\* temporary file was created, the segment is as it was and the temporary
\* file is still at path + ".rewriting.tmp", holding what was written of the
\* kept blocks of the segment.
C14_FailureLeavesTemporary ==
  FailedAfterCreate =>
    /\ fs[proc.path] = fsStart[proc.path]
    /\ OutputPath(proc.path) \in DOMAIN fs
    /\ LET kept    == KeptBlocks(fsStart[proc.path].blocks, FilterSet)
           written == fs[OutputPath(proc.path)].blocks
       IN Len(written) <= Len(kept) /\ written = SubSeq(kept, 1, Len(written))

\* the rename failed: the finished temporary file is beside the segment it
\* was to replace
C14_Witness ==
  /\ FailedAfterCreate
  /\ proc.w = "closed"
  /\ fs[OutputPath(proc.path)].index
  /\ fs[OutputPath(proc.path)].blocks # fs[proc.path].blocks

\* ---- what the rewrite phase leaves alone
\* the files that differ between two directories
Changed(f, g) ==
  {p \in DOMAIN f \cup DOMAIN g : p \notin DOMAIN f \/ p \notin DOMAIN g \/ f[p] # g[p]}

\* a located segment file and its two temporary siblings, path +
\* ".rewriting.tmp" and path + ".rewriting.tmp.idx.tmp"
LocatedAndSiblings ==
  UNION {{q, q \o RewritingTmp, q \o RewritingTmp \o IdxTmp} :
           q \in {p \in DOMAIN fsStart : Located(p)}}

\* C17: no step of deleteSeries, deleteFromTSMFiles or processTSMFile changes
\* cmd.series, the series file, the keys of cmd.tsmFiles or the set of paths
\* of a unit (sorting changes their order only), and the only files such a step
\* creates, removes or replaces are a located segment file, its temporary
\* file and its index temporary file.
C17_RewritePhaseFrame ==
  [][run.pc \in {"deleteSeries", "deleteFromTSMFiles"} =>
       /\ cmd'.series = cmd.series
       /\ seriesLines' = seriesLines
       /\ DOMAIN cmd'.tsmFiles = DOMAIN cmd.tsmFiles
       /\ \A key \in DOMAIN cmd.tsmFiles :
            /\ Range(cmd'.tsmFiles[key]) = Range(cmd.tsmFiles[key])
            /\ Len(cmd'.tsmFiles[key]) = Len(cmd.tsmFiles[key])
       /\ Changed(fs, fs') \subseteq LocatedAndSiblings]_vars

\* Run has returned nil after rewriting a segment, with a unit whose two
\* files the sorting has put in the other order than the walk
C17_Witness ==
  /\ run.pc = "done" /\ run.ret = "nil"
  /\ cmd.series # {}
  /\ fs # fsStart
  /\ \E key \in DOMAIN cmd.tsmFiles :
       /\ Len(cmd.tsmFiles[key]) = 2
       /\ WalkLess(cmd.tsmFiles[key][2], cmd.tsmFiles[key][1])

\* ---- concurrent rewrites
\* the two calls
Frames == {proc, other}

\* what processTSMFile(path) leaves when it runs alone on the original
Filtered(path) == Segment(KeptBlocks(orig[path].blocks, FilterSet), TRUE)

\* how many blocks of S have their derived key in F
RECURSIVE DroppedOf(_, _)
DroppedOf(S, F) ==
  IF S = <<>> THEN 0
  ELSE (IF DerivedKey(S[1]) \in F THEN 1 ELSE 0) + DroppedOf(Tail(S), F)

\* C15: the temporary path and the index temporary path of a segment file
\* are those of no other segment file and are no segment paths; and when two
\* calls of processTSMFile on different files interleave their steps, a call
\* fails only by an I/O failure of its own, leaves its file as it was when it
\* fails, and when it returns nil has left its file and its dropped count as
\* it does running alone.
C15_DifferentFilesDoNotInterfere ==
  /\ \A p \in FilePool :
       /\ {OutputPath(p), OutputPath(p) \o IdxTmp} \cap AllSegments = {}
       /\ \A q \in FilePool \ {p} :
            {OutputPath(p), OutputPath(p) \o IdxTmp}
              \cap {OutputPath(q), OutputPath(q) \o IdxTmp} = {}
  /\ proc.path # other.path =>
       \A frame \in Frames :
         /\ (frame.pc = "return" /\ frame.ret = "err") =>
              faults > 0 /\ fs[frame.path] = orig[frame.path]
         /\ (frame.pc = "return" /\ frame.ret = "nil") =>
              /\ fs[frame.path] = Filtered(frame.path)
              /\ frame.dropped = DroppedOf(orig[frame.path].blocks, FilterSet)
         /\ frame.pc # "return" => fs[frame.path] = orig[frame.path]

\* two calls on different files have both returned nil, each having dropped a
\* block, and one removed its temporary file while the other was writing
C15_Witness ==
  /\ proc.path # other.path
  /\ \A frame \in Frames :
       frame.pc = "return" /\ frame.ret = "nil" /\ frame.dropped > 0
  /\ \E frame \in Frames : frame.overlapped

\* the two calls are on the same segment file
SamePath == proc.path = other.path

\* C16 as stated: when two calls of processTSMFile on the same path
\* interleave their steps, the path holds at every moment the complete
\* original or the complete filtered segment.
C16_SamePathNeverPartial ==
  SamePath => fs[proc.path] \in {orig[proc.path], Filtered(proc.path)}

\* C16, amended: when two calls of processTSMFile on the same path interleave
\* their steps, the path holds the complete original or the complete filtered
\* segment as long as neither call has removed the temporary file while the
\* other was between its own removal and its rename.
C16_SamePathCompleteUnlessOverlapped ==
  (SamePath /\ \A frame \in Frames : ~frame.overlapped) =>
    fs[proc.path] \in {orig[proc.path], Filtered(proc.path)}

\* two calls on the same path have both returned nil; both had read the
\* original, and the second removed the temporary file only after the rename
\* of the first
C16_Witness ==
  /\ SamePath
  /\ \A frame \in Frames :
       /\ frame.pc = "return" /\ frame.ret = "nil"
       /\ frame.dropped > 0
       /\ ~frame.overlapped
  /\ fs[proc.path] # orig[proc.path]

====
